---- MODULE Spec2Model ----
(***************************************************************************)
(* DisposableEmailValidator (src/src/validator.ts): construction of the    *)
(* per-environment rule state from a configuration object, and the         *)
(* validateEmail decision procedure.                                       *)
(*                                                                         *)
(* Strings are sequences of one-character strings.  An optional value      *)
(* (a property that may be undefined, a field that may be null) is a       *)
(* sequence of length 0 or 1: <<>> is undefined/null, <<v>> is v.          *)
(* Objects that the code shares by reference (the rules record) live in    *)
(* a heap, rulesHeap, and are named by their address.                      *)
(***************************************************************************)
EXTENDS Integers, Sequences, FiniteSets, TLC

VARIABLES
    config,        \* the caller's configuration map: own keys -> environment record
    rulesHeap,     \* address -> Rules object {allow_plus_addressing, allow_disposable_emails}
    validator,     \* <<>> or <<the DisposableEmailValidator the caller holds>>
    construction,  \* <<>> or <<[environment, error]>>: the constructor call made
    result,        \* <<>> or <<[email, outcome]>>: the validateEmail call just made
    writes,        \* number of writes the caller made to the map after construction
    calls,         \* caller -> the validateEmail call it has in progress, line by line
    defaultBlockedDomains,  \* the array the module of the built-in list exports
    identity       \* <<>> or <<which object each set field of the instance holds>>

vars ==
    <<config, rulesHeap, validator, construction, result, writes, calls,
      defaultBlockedDomains, identity>>

----------------------------------------------------------------------------
(* Bounds of the model *)

\* longest input string handed to validateEmail
MaxLen == 4

\* writes the caller makes to the configuration after construction
MaxWrites == 1

\* the characters input strings are made of: two letters, one of them in both
\* cases, the separator, the plus sign and a whitespace character
Chars == {"a", "A", "b", "@", "+", " "}

\* Characters outside ASCII are named by their code point.  The Greek sigma
\* has one upper-case form and two lower-case forms:
\*   "U+03A3" capital sigma, "U+03C3" small sigma, "U+03C2" small final sigma
SigmaChars == {"U+03A3", "U+03C3", "U+03C2"}

\* addresses at a one-character Greek domain
SigmaEmails == {<<"a", "@", c>> : c \in SigmaChars}

\* addresses whose domain ends in a sigma that follows a letter, directly
\* or across a full stop, and one with a letter after the sigma; the first
\* also with a whitespace character at the end
FinalSigmaEmails ==
    {<<"a", "@", "a", c>> : c \in SigmaChars}
    \cup {<<"a", "@", "b", ".", "U+03A3">>, <<"a", "@", "U+03A3", "a">>,
          <<"A", "@", "A", "U+03A3", " ">>}

\* longer inputs: a "+" in the middle of the local part, and three segments
\* around two "@"
LongEmails ==
    {<<"a", "+", "b", "@", "b">>, <<"a", "@", "b", "@", "a">>,
     <<"a", "@", "a", "@", "b">>}

\* addresses at a subdomain of the built-in domain and of the custom domain
SubdomainEmails ==
    {<<"a", "@", "b", ".", "a">>, <<"+", "@", "a", ".", "b">>}

Emails ==
    UNION {[1..n -> Chars] : n \in 0..MaxLen}
    \cup SigmaEmails \cup FinalSigmaEmails \cup LongEmails \cup SubdomainEmails

----------------------------------------------------------------------------
(* Optional values *)

Undefined == <<>>
Some(v) == <<v>>
IsDefined(o) == o # <<>>
Get(o) == o[1]

----------------------------------------------------------------------------
(* String primitives of the JavaScript runtime, as the code uses them *)

Min(S) == CHOOSE x \in S : \A y \in S : x <= y
Max(S) == CHOOSE x \in S : \A y \in S : x >= y

\* The lower-case mapping of one character, whatever stands around it, on
\* the letters of the model's alphabet: the capital sigma maps to the small
\* sigma
LowerChar(c) ==
    CASE c = "A" -> "a" [] c = "B" -> "b" [] c = "U+03A3" -> "U+03C3"
      [] OTHER -> c

\* Unicode properties of the model's characters: the letters are cased, the
\* full stop is case-ignorable, "@", "+" and the space are neither
Cased(c) == c \in {"a", "A", "b", "B", "U+03A3", "U+03C3", "U+03C2"}
CaseIgnorable(c) == c = "."

\* The Final_Sigma condition of String.prototype.toLowerCase: the character
\* at i comes after a cased letter, case-ignorable characters skipped, and
\* no cased letter comes after it, case-ignorable characters skipped
Final_Sigma(s, i) ==
    /\ \E j \in 1..(i - 1) :
          Cased(s[j]) /\ \A k \in (j + 1)..(i - 1) : CaseIgnorable(s[k])
    /\ ~\E j \in (i + 1)..Len(s) :
          Cased(s[j]) /\ \A k \in (i + 1)..(j - 1) : CaseIgnorable(s[k])

\* the character toLowerCase writes at position i: a capital sigma at the
\* end of a word becomes the final sigma
LowerAt(s, i) ==
    IF s[i] = "U+03A3" /\ Final_Sigma(s, i) THEN "U+03C2" ELSE LowerChar(s[i])

\* String.prototype.toLowerCase
toLowerCase(s) == [i \in 1..Len(s) |-> LowerAt(s, i)]

\* (mutant) the upper-case letter counts as whitespace
IsWhiteSpace_UpperCaseToo(c) == c = " " \/ c = "A"

\* String.prototype.trim: strips leading and trailing whitespace
IsWhiteSpace(c) == c = " "
trim(s) ==
    LET keep == {i \in 1..Len(s) : ~IsWhiteSpace(s[i])}
    IN  IF keep = {} THEN <<>> ELSE SubSeq(s, Min(keep), Max(keep))

\* (mutant) String.prototype.indexOf: the first occurrence instead of the last
lastIndexOf_First(s, c) ==
    LET at == {i \in 1..Len(s) : s[i] = c}
    IN  IF at = {} THEN -1 ELSE Min(at) - 1

\* String.prototype.lastIndexOf: 0-based index of the last occurrence, or -1
lastIndexOf(s, c) ==
    LET at == {i \in 1..Len(s) : s[i] = c}
    IN  IF at = {} THEN -1 ELSE Max(at) - 1

\* String.prototype.substring(start, end): both indices are clamped to
\* 0..length and swapped when start > end; characters start..end-1 (0-based)
substring(s, start, end) ==
    LET clamp(x) == IF x < 0 THEN 0 ELSE IF x > Len(s) THEN Len(s) ELSE x
        a == clamp(start)
        b == clamp(end)
        lo == IF a <= b THEN a ELSE b
        hi == IF a <= b THEN b ELSE a
    IN  SubSeq(s, lo + 1, hi)

\* (mutant) a match at the start of the string is not counted
includes_NotAtStart(s, c) == \E i \in 2..Len(s) : s[i] = c

\* String.prototype.includes, for a one-character needle
includes(s, c) == \E i \in 1..Len(s) : s[i] = c

----------------------------------------------------------------------------
(* The built-in disposable-domain list (src/data/disposable-domains, a data *)
(* file that is not part of the sources at hand): a list of domains, held  *)
(* in one array for the life of the program.                               *)

\* the domains the data file lists
BuiltInDomains == << <<"a">> >>

\* the imported binding: the entries of the module's array as they are now
DEFAULT_BLOCKED_DOMAINS == defaultBlockedDomains

----------------------------------------------------------------------------
(* Objects: the arrays of the caller's map, the built-in array, and the    *)
(* objects the constructor allocates.  A field of the instance holds one   *)
(* of them; two holders of one object see each other's writes.             *)

\* config[env].disposableDomains or config[env].trustedDomains
CallerArray(env, field) == [kind |-> "caller's array", env |-> env, field |-> field]
\* the array behind DEFAULT_BLOCKED_DOMAINS
BuiltInArray == [kind |-> "built-in array", env |-> "", field |-> ""]
\* the object a "new Set(...)" of the constructor allocates for a field
NewSet(field) == [kind |-> "new Set", env |-> "", field |-> field]
Null == [kind |-> "null", env |-> "", field |-> ""]

\* the arrays the caller's map holds
CallerArrays(cfg) ==
    {CallerArray(env, f) :
        env \in DOMAIN cfg, f \in {"disposableDomains", "trustedDomains"}}

\* the objects the constructor stores in this.disposableDomains (line 90) and
\* this.trustedDomains (lines 92-94): a new Set each, or null
allocated(this) ==
    [disposableDomains |-> NewSet("disposableDomains"),
     trustedDomains |->
        IF IsDefined(this.trustedDomains) THEN NewSet("trustedDomains") ELSE Null]

\* The instance after the caller's map has become cfg: a field that holds
\* one of the caller's arrays shows the entries that array has now; a field
\* that holds an object of its own is as it was.
AfterWrite(this, id, cfg) ==
    LET held(f) == id[f].kind = "caller's array"
                      /\ id[f].env \in DOMAIN cfg
                      /\ IsDefined(cfg[id[f].env][f])
        entries(f) == LET list == Get(cfg[id[f].env][f])
                      IN  {list[i] : i \in 1..Len(list)}
    IN  [this EXCEPT
            !.disposableDomains =
                IF held("disposableDomains") THEN entries("disposableDomains") ELSE @,
            !.trustedDomains =
                IF held("trustedDomains") THEN Some(entries("trustedDomains")) ELSE @]

----------------------------------------------------------------------------
(* The constructor *)

\* Property names every ordinary object inherits from Object.prototype:
\* config[environment] finds them although they are no keys of the map.
ObjectPrototypeProperties ==
    {"constructor", "toString", "toLocaleString", "valueOf", "hasOwnProperty",
     "isPrototypeOf", "propertyIsEnumerable", "__proto__",
     "__defineGetter__", "__defineSetter__", "__lookupGetter__",
     "__lookupSetter__"}

\* What config[environment] yields for an inherited property: a function or
\* object (truthy) that has none of the properties the constructor reads.
InheritedValue ==
    [rules |-> Undefined, disposableDomains |-> Undefined,
     mergeDisposableDomains |-> Undefined, trustedDomains |-> Undefined]

\* (mutant) an unknown name falls back to the "production" entry
PropertyGet_Fallback(cfg, environment) ==
    IF environment \in DOMAIN cfg THEN Some(cfg[environment])
    ELSE IF environment \in ObjectPrototypeProperties THEN Some(InheritedValue)
    ELSE IF "production" \in DOMAIN cfg THEN Some(cfg["production"])
    ELSE Undefined

\* config[environment]: own key, else the prototype chain, else undefined
PropertyGet(cfg, environment) ==
    IF environment \in DOMAIN cfg THEN Some(cfg[environment])
    ELSE IF environment \in ObjectPrototypeProperties THEN Some(InheritedValue)
    ELSE Undefined

\* (mutant) an unset merge flag counts as false
domainsToUse_NoDefaultMerge(envConfig) ==
    IF IsDefined(envConfig.disposableDomains)
    THEN LET shouldMerge == IF IsDefined(envConfig.mergeDisposableDomains)
                            THEN Get(envConfig.mergeDisposableDomains)
                            ELSE FALSE
         IN  IF shouldMerge
             THEN DEFAULT_BLOCKED_DOMAINS \o Get(envConfig.disposableDomains)
             ELSE Get(envConfig.disposableDomains)
    ELSE DEFAULT_BLOCKED_DOMAINS

\* (mutant) the custom list is merged whatever the merge flag says
domainsToUse_AlwaysMerge(envConfig) ==
    IF IsDefined(envConfig.disposableDomains)
    THEN DEFAULT_BLOCKED_DOMAINS \o Get(envConfig.disposableDomains)
    ELSE DEFAULT_BLOCKED_DOMAINS

\* (mutant) the merge flag is read first: without a custom list, a false
\* merge flag leaves no domains at all
domainsToUse_MergeFirst(envConfig) ==
    LET shouldMerge == IF IsDefined(envConfig.mergeDisposableDomains)
                       THEN Get(envConfig.mergeDisposableDomains)
                       ELSE TRUE
        custom == IF IsDefined(envConfig.disposableDomains)
                  THEN Get(envConfig.disposableDomains)
                  ELSE <<>>
    IN  IF shouldMerge THEN DEFAULT_BLOCKED_DOMAINS \o custom ELSE custom

\* lines 75-88: the list of domains the disposable set is built from
domainsToUse(envConfig) ==
    IF IsDefined(envConfig.disposableDomains)
    THEN LET shouldMerge == IF IsDefined(envConfig.mergeDisposableDomains)
                            THEN Get(envConfig.mergeDisposableDomains)
                            ELSE TRUE
         IN  IF shouldMerge
             THEN DEFAULT_BLOCKED_DOMAINS \o Get(envConfig.disposableDomains)
             ELSE Get(envConfig.disposableDomains)
    ELSE DEFAULT_BLOCKED_DOMAINS

\* (mutant) the entries are stored as written
LowerSet_AsWritten(list) == {list[i] : i \in 1..Len(list)}

\* new Set(list.map((d) => d.toLowerCase()))
LowerSet(list) == {toLowerCase(list[i]) : i \in 1..Len(list)}

\* (mutant) the message interpolates the looked-up value, not the name
InvalidEnvironmentMessage_Value(environment) == <<"Invalid environment: ", "undefined">>

\* the message of the error thrown for an unknown environment
InvalidEnvironmentMessage(environment) == <<"Invalid environment: ", environment>>

\* (mutant) the error is of another class and carries another text
constructor_ConfigurationError(environment, cfg) ==
    LET envConfig == PropertyGet(cfg, environment)
    IN  IF ~IsDefined(envConfig)
        THEN [kind |-> "throw", name |-> "ConfigurationError",
              message |-> <<"unknown environment: ", environment>>]
        ELSE [kind |-> "return",
              this |-> [rules |-> Get(envConfig).rules,
                        disposableDomains |-> LowerSet(domainsToUse(Get(envConfig))),
                        trustedDomains |->
                            IF IsDefined(Get(envConfig).trustedDomains)
                            THEN Some(LowerSet(Get(Get(envConfig).trustedDomains)))
                            ELSE Undefined]]

\* (mutant) an empty trusted list is treated like a missing one
constructor_EmptyTrustedNull(environment, cfg) ==
    LET envConfig == PropertyGet(cfg, environment)
    IN  IF ~IsDefined(envConfig)
        THEN [kind |-> "throw", name |-> "Error",
              message |-> InvalidEnvironmentMessage(environment)]
        ELSE [kind |-> "return",
              this |-> [rules |-> Get(envConfig).rules,
                        disposableDomains |-> LowerSet(domainsToUse(Get(envConfig))),
                        trustedDomains |->
                            IF IsDefined(Get(envConfig).trustedDomains)
                               /\ Get(Get(envConfig).trustedDomains) # <<>>
                            THEN Some(LowerSet(Get(Get(envConfig).trustedDomains)))
                            ELSE Undefined]]

\* new DisposableEmailValidator(environment, cfg): the instance, or the throw
constructor(environment, cfg) ==
    LET envConfig == PropertyGet(cfg, environment)
    IN  IF ~IsDefined(envConfig)
        THEN [kind |-> "throw", name |-> "Error",
              message |-> InvalidEnvironmentMessage(environment)]
        ELSE [kind |-> "return",
              this |-> [rules |-> Get(envConfig).rules,
                        disposableDomains |-> LowerSet(domainsToUse(Get(envConfig))),
                        trustedDomains |->
                            IF IsDefined(Get(envConfig).trustedDomains)
                            THEN Some(LowerSet(Get(Get(envConfig).trustedDomains)))
                            ELSE Undefined]]

----------------------------------------------------------------------------
(* validateEmail *)

INVALID_FORMAT == "Invalid email format"
DISPOSABLE_BLOCKED == "Disposable email addresses are not allowed"
PLUS_BLOCKED == "Plus addressing is not allowed"

Success == [kind |-> "return", success |-> TRUE, error |-> Undefined]
Failure(msg) == [kind |-> "return", success |-> FALSE, error |-> Some(msg)]
\* reading a property of undefined
TypeError == [kind |-> "throw", name |-> "TypeError"]

\* (mutant) the input is trimmed but not lowercased
normalize_NoLowerCase(email) == trim(email)

\* lines 133-136
normalize(email) == trim(toLowerCase(email))
atIndexOf(emailLower) == lastIndexOf(emailLower, "@")
\* (mutant) without an "@" the whole string is the local part
localPartOf_WholeWhenNoAt(emailLower) ==
    IF atIndexOf(emailLower) = -1 THEN emailLower
    ELSE substring(emailLower, 0, atIndexOf(emailLower))

localPartOf(emailLower) == substring(emailLower, 0, atIndexOf(emailLower))
\* (mutant) the domain is the text after the first "@"
domainOf_AfterFirst(emailLower) ==
    substring(emailLower, lastIndexOf_First(emailLower, "@") + 1, Len(emailLower))

domainOf(emailLower) ==
    substring(emailLower, atIndexOf(emailLower) + 1, Len(emailLower))

\* (mutant) a domain also matches the entries it is a subdomain of
validateEmail_SubdomainMatch(this, heap, email) ==
    LET emailLower == normalize(email)
        localPart == localPartOf(emailLower)
        domain == domainOf(emailLower)
        Matches(set) ==
            \E e \in set :
                \/ e = domain
                \/ /\ Len(e) > 0
                   /\ Len(domain) > Len(e) + 1
                   /\ domain[Len(domain) - Len(e)] = "."
                   /\ SubSeq(domain, Len(domain) - Len(e) + 1, Len(domain)) = e
    IN  IF localPart = <<>> \/ domain = <<>>
        THEN Failure(INVALID_FORMAT)
        ELSE IF IsDefined(this.trustedDomains)
                /\ (emailLower \in Get(this.trustedDomains)
                    \/ Matches(Get(this.trustedDomains)))
        THEN Success
        ELSE IF ~IsDefined(this.rules)
        THEN TypeError
        ELSE IF ~heap[Get(this.rules)].allow_disposable_emails
                /\ Matches(this.disposableDomains)
        THEN Failure(DISPOSABLE_BLOCKED)
        ELSE IF ~heap[Get(this.rules)].allow_plus_addressing
                /\ includes(localPart, "+")
        THEN Failure(PLUS_BLOCKED)
        ELSE Success

\* (mutant) a trusted full address makes its whole domain trusted
validateEmail_TrustedAddressDomain(this, heap, email) ==
    LET emailLower == normalize(email)
        localPart == localPartOf(emailLower)
        domain == domainOf(emailLower)
    IN  IF localPart = <<>> \/ domain = <<>>
        THEN Failure(INVALID_FORMAT)
        ELSE IF IsDefined(this.trustedDomains)
                /\ (emailLower \in Get(this.trustedDomains)
                    \/ domain \in Get(this.trustedDomains)
                    \/ \E e \in Get(this.trustedDomains) :
                          atIndexOf(e) >= 0 /\ domainOf(e) = domain)
        THEN Success
        ELSE IF ~IsDefined(this.rules)
        THEN TypeError
        ELSE IF ~heap[Get(this.rules)].allow_disposable_emails
                /\ domain \in this.disposableDomains
        THEN Failure(DISPOSABLE_BLOCKED)
        ELSE IF ~heap[Get(this.rules)].allow_plus_addressing
                /\ includes(localPart, "+")
        THEN Failure(PLUS_BLOCKED)
        ELSE Success

\* (mutant) the disposable rule applies when disposable addresses are allowed
validateEmail_DisposableFlagInverted(this, heap, email) ==
    LET emailLower == normalize(email)
        localPart == localPartOf(emailLower)
        domain == domainOf(emailLower)
    IN  IF localPart = <<>> \/ domain = <<>>
        THEN Failure(INVALID_FORMAT)
        ELSE IF IsDefined(this.trustedDomains)
                /\ (emailLower \in Get(this.trustedDomains)
                    \/ domain \in Get(this.trustedDomains))
        THEN Success
        ELSE IF ~IsDefined(this.rules)
        THEN TypeError
        ELSE IF heap[Get(this.rules)].allow_disposable_emails
                /\ domain \in this.disposableDomains
        THEN Failure(DISPOSABLE_BLOCKED)
        ELSE IF ~heap[Get(this.rules)].allow_plus_addressing
                /\ includes(localPart, "+")
        THEN Failure(PLUS_BLOCKED)
        ELSE Success

\* (mutant) the plus-addressing rule applies whatever its flag says
validateEmail_IgnoresPlusFlag(this, heap, email) ==
    LET emailLower == normalize(email)
        localPart == localPartOf(emailLower)
        domain == domainOf(emailLower)
    IN  IF localPart = <<>> \/ domain = <<>>
        THEN Failure(INVALID_FORMAT)
        ELSE IF IsDefined(this.trustedDomains)
                /\ (emailLower \in Get(this.trustedDomains)
                    \/ domain \in Get(this.trustedDomains))
        THEN Success
        ELSE IF ~IsDefined(this.rules)
        THEN TypeError
        ELSE IF ~heap[Get(this.rules)].allow_disposable_emails
                /\ domain \in this.disposableDomains
        THEN Failure(DISPOSABLE_BLOCKED)
        ELSE IF includes(localPart, "+")
        THEN Failure(PLUS_BLOCKED)
        ELSE Success

\* (mutant) each flag guards the other rule
validateEmail_FlagsSwapped(this, heap, email) ==
    LET emailLower == normalize(email)
        localPart == localPartOf(emailLower)
        domain == domainOf(emailLower)
    IN  IF localPart = <<>> \/ domain = <<>>
        THEN Failure(INVALID_FORMAT)
        ELSE IF IsDefined(this.trustedDomains)
                /\ (emailLower \in Get(this.trustedDomains)
                    \/ domain \in Get(this.trustedDomains))
        THEN Success
        ELSE IF ~IsDefined(this.rules)
        THEN TypeError
        ELSE IF ~heap[Get(this.rules)].allow_plus_addressing
                /\ domain \in this.disposableDomains
        THEN Failure(DISPOSABLE_BLOCKED)
        ELSE IF ~heap[Get(this.rules)].allow_disposable_emails
                /\ includes(localPart, "+")
        THEN Failure(PLUS_BLOCKED)
        ELSE Success

\* (mutant) the trusted override is consulted before the format check
validateEmail_TrustedBeforeFormat(this, heap, email) ==
    LET emailLower == normalize(email)
        localPart == localPartOf(emailLower)
        domain == domainOf(emailLower)
    IN  IF IsDefined(this.trustedDomains)
           /\ (emailLower \in Get(this.trustedDomains)
               \/ domain \in Get(this.trustedDomains))
        THEN Success
        ELSE IF localPart = <<>> \/ domain = <<>>
        THEN Failure(INVALID_FORMAT)
        ELSE IF ~IsDefined(this.rules)
        THEN TypeError
        ELSE IF ~heap[Get(this.rules)].allow_disposable_emails
                /\ domain \in this.disposableDomains
        THEN Failure(DISPOSABLE_BLOCKED)
        ELSE IF ~heap[Get(this.rules)].allow_plus_addressing
                /\ includes(localPart, "+")
        THEN Failure(PLUS_BLOCKED)
        ELSE Success

\* (mutant) the trusted override is consulted after the two blocking rules
validateEmail_TrustedLast(this, heap, email) ==
    LET emailLower == normalize(email)
        localPart == localPartOf(emailLower)
        domain == domainOf(emailLower)
    IN  IF localPart = <<>> \/ domain = <<>>
        THEN Failure(INVALID_FORMAT)
        ELSE IF ~IsDefined(this.rules)
        THEN TypeError
        ELSE IF ~heap[Get(this.rules)].allow_disposable_emails
                /\ domain \in this.disposableDomains
        THEN Failure(DISPOSABLE_BLOCKED)
        ELSE IF ~heap[Get(this.rules)].allow_plus_addressing
                /\ includes(localPart, "+")
        THEN Failure(PLUS_BLOCKED)
        ELSE Success

\* (mutant) the plus-addressing rule is applied before the disposable rule
validateEmail_PlusFirst(this, heap, email) ==
    LET emailLower == normalize(email)
        localPart == localPartOf(emailLower)
        domain == domainOf(emailLower)
    IN  IF localPart = <<>> \/ domain = <<>>
        THEN Failure(INVALID_FORMAT)
        ELSE IF IsDefined(this.trustedDomains)
                /\ (emailLower \in Get(this.trustedDomains)
                    \/ domain \in Get(this.trustedDomains))
        THEN Success
        ELSE IF ~IsDefined(this.rules)
        THEN TypeError
        ELSE IF ~heap[Get(this.rules)].allow_plus_addressing
                /\ includes(localPart, "+")
        THEN Failure(PLUS_BLOCKED)
        ELSE IF ~heap[Get(this.rules)].allow_disposable_emails
                /\ domain \in this.disposableDomains
        THEN Failure(DISPOSABLE_BLOCKED)
        ELSE Success

\* this.validateEmail(email), with the heap the rules object is read from
validateEmail(this, heap, email) ==
    LET emailLower == normalize(email)
        localPart == localPartOf(emailLower)
        domain == domainOf(emailLower)
    IN  IF localPart = <<>> \/ domain = <<>>
        THEN Failure(INVALID_FORMAT)
        ELSE IF IsDefined(this.trustedDomains)
                /\ (emailLower \in Get(this.trustedDomains)
                    \/ domain \in Get(this.trustedDomains))
        THEN Success
        ELSE IF ~IsDefined(this.rules)
        THEN TypeError
        ELSE IF ~heap[Get(this.rules)].allow_disposable_emails
                /\ domain \in this.disposableDomains
        THEN Failure(DISPOSABLE_BLOCKED)
        ELSE IF ~heap[Get(this.rules)].allow_plus_addressing
                /\ includes(localPart, "+")
        THEN Failure(PLUS_BLOCKED)
        ELSE Success

----------------------------------------------------------------------------
(* Configurations the caller may hand to the constructor *)

RulesObjects == [allow_plus_addressing : BOOLEAN, allow_disposable_emails : BOOLEAN]

\* custom disposable lists: none, empty, one domain written in upper case
DisposableLists == {Undefined, Some(<<>>), Some(<< <<"B">> >>)}
MergeFlags == {Undefined, Some(TRUE), Some(FALSE)}
\* trusted lists: none, empty, a domain and a full address
TrustedLists == {Undefined, Some(<<>>), Some(<< <<"B">>, <<"a", "+", "@", "a">> >>)}

\* the record of environment "test" when the map has one, shaped as the
\* test suite's: three custom disposable domains outside the built-in list
\* (two of them Greek, one written with a capital sigma at its end), no
\* merge flag, and two trusted domains that are in neither list
TestEntry ==
    [rules |-> Some(2),
     disposableDomains |->
        Some(<< <<"b">>, <<"U+03C2">>, <<"a", "U+03A3">> >>),
     mergeDisposableDomains |-> Undefined,
     trustedDomains |-> Some(<< <<"a", "b">>, <<"b", "a">> >>)]
TestRules == [allow_plus_addressing |-> TRUE, allow_disposable_emails |-> FALSE]

ProductionEntries ==
    [rules : {Some(1)}, disposableDomains : DisposableLists,
     mergeDisposableDomains : MergeFlags, trustedDomains : TrustedLists]

\* environment names handed to the constructor
EnvironmentNames == {"production", "Production", "test", "staging", "constructor"}

\* callers that share one instance, and the inputs they validate: a
\* malformed one, addresses at the built-in domain and at the custom domain,
\* with and without a "+"
Callers == {"c1", "c2"}
ConcurrentEmails ==
    {<<"@", "a">>, <<"a", "@", "a">>, <<"+", "@", "b">>, <<"b", "@", "B">>,
     <<"a", "+", "@", "a">>}

\* no call in progress
Idle == [pc |-> "idle"]

----------------------------------------------------------------------------
(* The state machine *)

Init ==
    /\ \E e \in ProductionEntries, r \in RulesObjects, withTest \in BOOLEAN :
          /\ config = IF withTest
                      THEN [k \in {"production", "test"} |->
                               IF k = "production" THEN e ELSE TestEntry]
                      ELSE [k \in {"production"} |-> e]
          /\ rulesHeap = [a \in {1, 2} |-> IF a = 1 THEN r ELSE TestRules]
    /\ validator = Undefined
    /\ construction = Undefined
    /\ result = Undefined
    /\ writes = 0
    /\ calls = [c \in Callers |-> Idle]
    /\ defaultBlockedDomains = BuiltInDomains
    /\ identity = Undefined

\* (mutant) the constructor keeps the arrays it is given instead of building
\* sets from them: this.trustedDomains is the entry's array, and
\* this.disposableDomains is the entry's array when the lists are not merged
\* and the built-in array when the entry has no list
Construct_KeepingArrays ==
    /\ construction = Undefined
    /\ \E environment \in EnvironmentNames :
          LET out == constructor(environment, config)
              own == environment \in DOMAIN config
              custom == own /\ IsDefined(config[environment].disposableDomains)
              alone == custom /\ config[environment].mergeDisposableDomains = Some(FALSE)
              trusted == own /\ IsDefined(config[environment].trustedDomains)
              id == [disposableDomains |->
                        IF alone THEN CallerArray(environment, "disposableDomains")
                        ELSE IF ~custom THEN BuiltInArray
                        ELSE NewSet("disposableDomains"),
                     trustedDomains |->
                        IF trusted THEN CallerArray(environment, "trustedDomains")
                        ELSE Null]
          IN  /\ validator' = IF out.kind = "return"
                               THEN Some(AfterWrite(out.this, id, config))
                               ELSE Undefined
              /\ identity' = IF out.kind = "return" THEN Some(id) ELSE Undefined
              /\ construction' =
                    Some([environment |-> environment,
                          error |-> IF out.kind = "throw"
                                    THEN Some([name |-> out.name, message |-> out.message])
                                    ELSE Undefined])
    /\ UNCHANGED <<config, rulesHeap, result, writes, calls, defaultBlockedDomains>>

\* (mutant) the constructor merges by pushing the entry's custom domains
\* onto the built-in array
Construct_MergingInPlace ==
    /\ construction = Undefined
    /\ \E environment \in EnvironmentNames :
          LET out == constructor(environment, config)
              merged == /\ environment \in DOMAIN config
                        /\ IsDefined(config[environment].disposableDomains)
                        /\ config[environment].mergeDisposableDomains # Some(FALSE)
          IN  /\ validator' = IF out.kind = "return" THEN Some(out.this) ELSE Undefined
              /\ identity' = IF out.kind = "return" THEN Some(allocated(out.this))
                              ELSE Undefined
              /\ construction' =
                    Some([environment |-> environment,
                          error |-> IF out.kind = "throw"
                                    THEN Some([name |-> out.name, message |-> out.message])
                                    ELSE Undefined])
              /\ defaultBlockedDomains' =
                    IF merged
                    THEN defaultBlockedDomains \o Get(config[environment].disposableDomains)
                    ELSE defaultBlockedDomains
    /\ UNCHANGED <<config, rulesHeap, result, writes, calls>>

\* (mutant) the constructor lowercases the entry's custom disposable-domain
\* list in place before it builds the set
Construct_LowercasingInPlace ==
    /\ construction = Undefined
    /\ \E environment \in EnvironmentNames :
          LET out == constructor(environment, config)
          IN  /\ validator' = IF out.kind = "return" THEN Some(out.this) ELSE Undefined
              /\ identity' = IF out.kind = "return" THEN Some(allocated(out.this))
                              ELSE Undefined
              /\ construction' =
                    Some([environment |-> environment,
                          error |-> IF out.kind = "throw"
                                    THEN Some([name |-> out.name, message |-> out.message])
                                    ELSE Undefined])
              /\ config' =
                    IF environment \in DOMAIN config
                       /\ IsDefined(config[environment].disposableDomains)
                    THEN [config EXCEPT ![environment].disposableDomains =
                             Some([i \in 1..Len(Get(@)) |-> toLowerCase(Get(@)[i])])]
                    ELSE config
    /\ UNCHANGED <<rulesHeap, result, writes, calls, defaultBlockedDomains>>

\* new DisposableEmailValidator(environment, config): the caller holds the
\* instance when the constructor returns, and nothing when it throws
Construct ==
    /\ construction = Undefined
    /\ \E environment \in EnvironmentNames :
          LET out == constructor(environment, config)
          IN  /\ validator' = IF out.kind = "return" THEN Some(out.this) ELSE Undefined
              /\ identity' = IF out.kind = "return" THEN Some(allocated(out.this))
                              ELSE Undefined
              /\ construction' =
                    Some([environment |-> environment,
                          error |-> IF out.kind = "throw"
                                    THEN Some([name |-> out.name, message |-> out.message])
                                    ELSE Undefined])
    /\ UNCHANGED <<config, rulesHeap, result, writes, calls, defaultBlockedDomains>>

\* (mutant) validateEmail remembers the domain of an address it rejected for
\* plus addressing in this.disposableDomains
ValidateEmail_Remembering ==
    /\ IsDefined(validator)
    /\ result = Undefined
    /\ \E email \in Emails :
          LET out == validateEmail(Get(validator), rulesHeap, email)
          IN  /\ result' = Some([email |-> email, outcome |-> out])
              /\ validator' =
                    IF out = Failure(PLUS_BLOCKED)
                    THEN Some([Get(validator) EXCEPT !.disposableDomains =
                                  @ \cup {domainOf(normalize(email))}])
                    ELSE validator
    /\ UNCHANGED <<config, rulesHeap, construction, writes, calls, defaultBlockedDomains, identity>>

\* validator.validateEmail(email): reads this and the rules object, writes nothing
ValidateEmail ==
    /\ IsDefined(validator)
    /\ result = Undefined
    /\ \E email \in Emails :
          result' = Some([email |-> email,
                          outcome |-> validateEmail(Get(validator), rulesHeap, email)])
    /\ UNCHANGED <<config, rulesHeap, validator, construction, writes, calls, defaultBlockedDomains, identity>>

\* the caller is done with the result record of the call
Discard ==
    /\ IsDefined(result)
    /\ result' = Undefined
    /\ UNCHANGED <<config, rulesHeap, validator, construction, writes, calls, defaultBlockedDomains, identity>>

Next == Construct \/ ValidateEmail \/ Discard

Spec == Init /\ [][Next]_vars

----------------------------------------------------------------------------
(* The caller keeps the configuration object and writes to it after the    *)
(* validator is built: the fields of Rules, ConfigEnv and Config are       *)
(* ordinary mutable properties.                                            *)

CanWrite ==
    /\ IsDefined(validator)
    /\ result = Undefined
    /\ writes < MaxWrites

\* config[env].rules.<flag> = !config[env].rules.<flag>  (in place)
WriteRulesFlag ==
    /\ CanWrite
    /\ \E env \in DOMAIN config,
          flag \in {"allow_plus_addressing", "allow_disposable_emails"} :
          rulesHeap' = [rulesHeap EXCEPT ![Get(config[env].rules)][flag] = ~@]
    /\ writes' = writes + 1
    /\ UNCHANGED <<config, validator, construction, result, calls, defaultBlockedDomains, identity>>

\* config[env].rules = { ...both flags negated }  (a new object)
ReplaceRules ==
    /\ CanWrite
    /\ \E env \in DOMAIN config :
          LET old == rulesHeap[Get(config[env].rules)]
              addr == Cardinality(DOMAIN rulesHeap) + 1
              new == [allow_plus_addressing |-> ~old.allow_plus_addressing,
                      allow_disposable_emails |-> ~old.allow_disposable_emails]
          IN  /\ rulesHeap' = [a \in DOMAIN rulesHeap \cup {addr} |->
                                  IF a = addr THEN new ELSE rulesHeap[a]]
              /\ config' = [config EXCEPT ![env].rules = Some(addr)]
    /\ writes' = writes + 1
    /\ UNCHANGED <<validator, construction, result, calls, defaultBlockedDomains, identity>>

\* config[env].disposableDomains.push("b"), or = ["b"] when there is no list
WriteDisposableDomains ==
    /\ CanWrite
    /\ \E env \in DOMAIN config :
          config' = [config EXCEPT ![env].disposableDomains =
                        Some(IF IsDefined(@) THEN Append(Get(@), <<"b">>)
                             ELSE << <<"b">> >>)]
    /\ validator' = Some(AfterWrite(Get(validator), Get(identity), config'))
    /\ writes' = writes + 1
    /\ UNCHANGED <<rulesHeap, construction, result, calls, defaultBlockedDomains, identity>>

\* config[env].mergeDisposableDomains = b
WriteMergeFlag ==
    /\ CanWrite
    /\ \E env \in DOMAIN config, b \in BOOLEAN :
          /\ config[env].mergeDisposableDomains # Some(b)
          /\ config' = [config EXCEPT ![env].mergeDisposableDomains = Some(b)]
    /\ writes' = writes + 1
    /\ UNCHANGED <<rulesHeap, validator, construction, result, calls, defaultBlockedDomains, identity>>

\* config[env].trustedDomains.push("a"), or = ["a"] when there is no list
WriteTrustedDomains ==
    /\ CanWrite
    /\ \E env \in DOMAIN config :
          config' = [config EXCEPT ![env].trustedDomains =
                        Some(IF IsDefined(@) THEN Append(Get(@), <<"a">>)
                             ELSE << <<"a">> >>)]
    /\ validator' = Some(AfterWrite(Get(validator), Get(identity), config'))
    /\ writes' = writes + 1
    /\ UNCHANGED <<rulesHeap, construction, result, calls, defaultBlockedDomains, identity>>

\* delete config[env]
DeleteEntry ==
    /\ CanWrite
    /\ \E env \in DOMAIN config :
          config' = [k \in DOMAIN config \ {env} |-> config[k]]
    /\ writes' = writes + 1
    /\ UNCHANGED <<rulesHeap, validator, construction, result, calls, defaultBlockedDomains, identity>>

NextCaller ==
    \/ Construct
    \/ ValidateEmail
    \/ Discard
    \/ WriteRulesFlag
    \/ ReplaceRules
    \/ WriteDisposableDomains
    \/ WriteMergeFlag
    \/ WriteTrustedDomains
    \/ DeleteEntry

SpecCaller == Init /\ [][NextCaller]_vars

\* construction and the caller's later writes, without calls
NextConstruction ==
    \/ Construct
    \/ WriteRulesFlag
    \/ ReplaceRules
    \/ WriteDisposableDomains
    \/ WriteMergeFlag
    \/ WriteTrustedDomains
    \/ DeleteEntry

SpecConstruction == Init /\ [][NextConstruction]_vars

----------------------------------------------------------------------------
(* Several callers run validateEmail on the one instance; a call advances  *)
(* statement by statement and the callers' statements interleave.  The     *)
(* locals of a call (emailLower, localPart, domain) are its own; this and  *)
(* the rules object are shared.                                            *)

InCall(c, pc) == calls[c].pc = pc
Goto(c, pc) == calls' = [calls EXCEPT ![c].pc = pc]
Finish(c, outcome) ==
    calls' = [calls EXCEPT ![c] =
                 [pc |-> "done", email |-> calls[c].email, outcome |-> outcome]]

\* lines 133-136: the locals of the call
Begin(c) ==
    /\ IsDefined(validator)
    /\ InCall(c, "idle")
    /\ \E email \in ConcurrentEmails :
          LET emailLower == normalize(email)
          IN  calls' = [calls EXCEPT ![c] =
                           [pc |-> "format", email |-> email,
                            emailLower |-> emailLower,
                            localPart |-> localPartOf(emailLower),
                            domain |-> domainOf(emailLower)]]
    /\ UNCHANGED <<config, rulesHeap, validator, construction, result, writes, defaultBlockedDomains, identity>>

\* lines 138-140
CheckFormat(c) ==
    /\ InCall(c, "format")
    /\ IF calls[c].localPart = <<>> \/ calls[c].domain = <<>>
       THEN Finish(c, Failure(INVALID_FORMAT))
       ELSE Goto(c, "trusted")
    /\ UNCHANGED <<config, rulesHeap, validator, construction, result, writes, defaultBlockedDomains, identity>>

\* lines 142-149: reads this.trustedDomains
CheckTrusted(c) ==
    /\ InCall(c, "trusted")
    /\ IF IsDefined(Get(validator).trustedDomains)
          /\ (calls[c].emailLower \in Get(Get(validator).trustedDomains)
              \/ calls[c].domain \in Get(Get(validator).trustedDomains))
       THEN Finish(c, Success)
       ELSE Goto(c, "disposable")
    /\ UNCHANGED <<config, rulesHeap, validator, construction, result, writes, defaultBlockedDomains, identity>>

\* lines 151-159: reads this.rules, its flag and this.disposableDomains
CheckDisposable(c) ==
    /\ InCall(c, "disposable")
    /\ IF ~IsDefined(Get(validator).rules)
       THEN Finish(c, TypeError)
       ELSE IF ~rulesHeap[Get(Get(validator).rules)].allow_disposable_emails
               /\ calls[c].domain \in Get(validator).disposableDomains
       THEN Finish(c, Failure(DISPOSABLE_BLOCKED))
       ELSE Goto(c, "plus")
    /\ UNCHANGED <<config, rulesHeap, validator, construction, result, writes, defaultBlockedDomains, identity>>

\* (mutant) a rejection for plus addressing is remembered: the domain is
\* added to this.disposableDomains
CheckPlus_Remembering(c) ==
    /\ InCall(c, "plus")
    /\ IF ~rulesHeap[Get(Get(validator).rules)].allow_plus_addressing
          /\ includes(calls[c].localPart, "+")
       THEN /\ Finish(c, Failure(PLUS_BLOCKED))
            /\ validator' = Some([Get(validator) EXCEPT !.disposableDomains =
                                     @ \cup {calls[c].domain}])
       ELSE /\ Finish(c, Success)
            /\ validator' = validator
    /\ UNCHANGED <<config, rulesHeap, construction, result, writes, defaultBlockedDomains, identity>>

\* lines 161-165: reads the other flag of this.rules
CheckPlus(c) ==
    /\ InCall(c, "plus")
    /\ IF ~rulesHeap[Get(Get(validator).rules)].allow_plus_addressing
          /\ includes(calls[c].localPart, "+")
       THEN Finish(c, Failure(PLUS_BLOCKED))
       ELSE Finish(c, Success)
    /\ UNCHANGED <<config, rulesHeap, validator, construction, result, writes, defaultBlockedDomains, identity>>

\* the caller has its result and may call again
Return(c) ==
    /\ InCall(c, "done")
    /\ calls' = [calls EXCEPT ![c] = Idle]
    /\ UNCHANGED <<config, rulesHeap, validator, construction, result, writes, defaultBlockedDomains, identity>>

NextConcurrent ==
    \/ Construct
    \/ \E c \in Callers : Begin(c)
    \/ \E c \in Callers : CheckFormat(c)
    \/ \E c \in Callers : CheckTrusted(c)
    \/ \E c \in Callers : CheckDisposable(c)
    \/ \E c \in Callers : CheckPlus(c)
    \/ \E c \in Callers : Return(c)

SpecConcurrent == Init /\ [][NextConcurrent]_vars

----------------------------------------------------------------------------
(* Vocabulary of the properties: the split of a normalized string at its   *)
(* last "@", stated on positions (1-based; 0 when there is no "@").        *)

LastAt(s) ==
    LET at == {i \in 1..Len(s) : s[i] = "@"}
    IN  IF at = {} THEN 0 ELSE Max(at)
TextBefore(s) == SubSeq(s, 1, LastAt(s) - 1)
TextAfter(s) == SubSeq(s, LastAt(s) + 1, Len(s))

\* the call just made, the instance it was made on, and the flags it read
Called == IsDefined(result)
Email == Get(result).email
Outcome == Get(result).outcome
This == Get(validator)
Flags == rulesHeap[Get(This.rules)]
HasTrustedSet == IsDefined(This.trustedDomains)
TrustedHit(s) ==
    /\ HasTrustedSet
    /\ (s \in Get(This.trustedDomains) \/ TextAfter(s) \in Get(This.trustedDomains))

----------------------------------------------------------------------------
(* Properties *)

\* the outcome of the first applicable step of the fixed order, for a
\* normalized input s on an instance with flags
FirstApplicableStep(s) ==
    IF TextBefore(s) = <<>> \/ TextAfter(s) = <<>>
    THEN [kind |-> "return", success |-> FALSE,
          error |-> <<"Invalid email format">>]
    ELSE IF TrustedHit(s)
    THEN [kind |-> "return", success |-> TRUE, error |-> <<>>]
    ELSE IF ~Flags.allow_disposable_emails
            /\ TextAfter(s) \in This.disposableDomains
    THEN [kind |-> "return", success |-> FALSE,
          error |-> <<"Disposable email addresses are not allowed">>]
    ELSE IF ~Flags.allow_plus_addressing
            /\ \E i \in 1..Len(TextBefore(s)) : TextBefore(s)[i] = "+"
    THEN [kind |-> "return", success |-> FALSE,
          error |-> <<"Plus addressing is not allowed">>]
    ELSE [kind |-> "return", success |-> TRUE, error |-> <<>>]

\* C1 as stated: on every instance and every input, validateEmail returns
\* the outcome of the first applicable step of the fixed order.  (On an
\* instance without flags, steps (3) and (4) have nothing to read: the claim
\* then asks at least for a returned result.)
C1_AsStated ==
    Called =>
        /\ Outcome.kind = "return"
        /\ Outcome = FirstApplicableStep(normalize(Email))

\* C1 on the calls that return (every call on an instance built from an
\* entry of the map): the call returns the outcome of the first applicable
\* step of the fixed order: (1) 'Invalid email format' if, in the trimmed
\* lowercased input, the text before the last '@' or the text after it is
\* empty; (2) success if a trusted set is present and holds the normalized
\* address or its domain; (3) 'Disposable email addresses are not allowed'
\* if allow_disposable_emails is false and the domain is in the disposable
\* set; (4) 'Plus addressing is not allowed' if allow_plus_addressing is
\* false and the local part contains '+'; (5) success otherwise.
C1_FirstApplicableStep ==
    (Called /\ Outcome.kind = "return") =>
        \A s \in {normalize(Email)} : Outcome = FirstApplicableStep(s)

\* C1 witness: step (4) decided a call although the domain is in the
\* disposable set (step (3) did not apply: disposable emails are allowed)
C1_Witness ==
    /\ Called
    /\ Outcome = Failure(PLUS_BLOCKED)
    /\ TextAfter(normalize(Email)) \in This.disposableDomains
    /\ HasTrustedSet

\* C2 as stated: on an engine with a trusted set, every input whose
\* normalized address or whose domain (the text after its last '@') is in the
\* trusted set is accepted
C2_AsStated ==
    (Called /\ LastAt(normalize(Email)) > 0 /\ TrustedHit(normalize(Email)))
        => Outcome = Success

\* C2 amended: on an engine with a trusted set, every input with a non-empty
\* local part and a non-empty domain whose normalized address or whose domain
\* is in the trusted set is accepted, whatever the rule flags are, whether or
\* not the domain is disposable and whether or not the local part has a '+'
C2_TrustedOverride ==
    Called =>
        LET s == normalize(Email)
        IN  (/\ TextBefore(s) # <<>>
             /\ TextAfter(s) # <<>>
             /\ TrustedHit(s))
                => Outcome = Success

\* C2 witness: a trusted address was accepted on an engine that blocks both
\* disposable domains and plus addressing, its domain being disposable and
\* its local part holding a '+'
C2_Witness ==
    /\ Called
    /\ Outcome = Success
    /\ TrustedHit(normalize(Email))
    /\ IsDefined(This.rules)
    /\ ~Flags.allow_disposable_emails
    /\ ~Flags.allow_plus_addressing
    /\ TextAfter(normalize(Email)) \in This.disposableDomains
    /\ includes(TextBefore(normalize(Email)), "+")

\* C3: with both flags false, an untrusted address whose domain is in the
\* disposable set and whose local part contains '+' is rejected as
\* disposable, never for plus addressing
C3_DisposableBeforePlus ==
    (/\ Called
     /\ IsDefined(This.rules)
     /\ ~Flags.allow_disposable_emails
     /\ ~Flags.allow_plus_addressing
     /\ LET s == normalize(Email)
        IN  /\ ~TrustedHit(s)
            /\ TextAfter(s) \in This.disposableDomains
            /\ \E i \in 1..Len(TextBefore(s)) : TextBefore(s)[i] = "+")
        => /\ Outcome.kind = "return"
           /\ Outcome.error = <<"Disposable email addresses are not allowed">>
           /\ Outcome.error # <<"Plus addressing is not allowed">>

\* C3 witness: such an address was validated on an engine that has a
\* trusted set which does not cover it
C3_Witness ==
    /\ Called
    /\ IsDefined(This.rules)
    /\ ~Flags.allow_disposable_emails
    /\ ~Flags.allow_plus_addressing
    /\ HasTrustedSet
    /\ Get(This.trustedDomains) # {}
    /\ ~TrustedHit(normalize(Email))
    /\ TextAfter(normalize(Email)) \in This.disposableDomains
    /\ includes(TextBefore(normalize(Email)), "+")

\* C4 as stated: every string with no '@', or with an '@' at position 0, or
\* with an '@' as its last character, is rejected as 'Invalid email format'
\* (stated here for the engines built from an entry of the map)
C4_AsStated ==
    (/\ Called
     /\ Get(construction).environment \in DOMAIN config
     /\ \/ \A i \in 1..Len(Email) : Email[i] # "@"
        \/ (Len(Email) > 0 /\ Email[1] = "@")
        \/ (Len(Email) > 0 /\ Email[Len(Email)] = "@"))
        => Outcome = Failure(INVALID_FORMAT)

\* C4 amended: every string with no '@', or whose last '@' is at position 0
\* (its only '@' is its first character), or with an '@' as its last
\* character, is rejected as 'Invalid email format', on every engine
C4_InvalidFormat ==
    (/\ Called
     /\ \/ \A i \in 1..Len(Email) : Email[i] # "@"
        \/ (Len(Email) > 0 /\ Email[1] = "@"
               /\ \A i \in 2..Len(Email) : Email[i] # "@")
        \/ (Len(Email) > 0 /\ Email[Len(Email)] = "@"))
        => /\ Outcome.kind = "return"
           /\ ~Outcome.success
           /\ Outcome.error = <<"Invalid email format">>

\* C4 witness: a string with its only '@' at position 0 and a trusted domain
\* after it was rejected
C4_Witness ==
    /\ Called
    /\ Len(Email) > 1
    /\ Email[1] = "@"
    /\ HasTrustedSet
    /\ SubSeq(Email, 2, Len(Email)) \in Get(This.trustedDomains)
    /\ Outcome = Failure(INVALID_FORMAT)

\* C5 as stated: construction succeeds for every name that is a key of the
\* configuration map, and for every name that is no key of it construction
\* fails with an error and the caller holds no engine
C5_AsStated ==
    IsDefined(construction) =>
        IF Get(construction).environment \in DOMAIN config
        THEN IsDefined(validator) /\ ~IsDefined(Get(construction).error)
        ELSE IsDefined(Get(construction).error) /\ ~IsDefined(validator)

\* C6: the error the constructor raises carries the message
\* 'Invalid environment: <name>', <name> being exactly the name passed in
C6_ErrorMessage ==
    (IsDefined(construction) /\ IsDefined(Get(construction).error)) =>
        Get(Get(construction).error).message =
            <<"Invalid environment: ", Get(construction).environment>>

\* C6 witness: construction was attempted with a name the map has no entry
\* for, and raised
C6_Witness ==
    /\ IsDefined(construction)
    /\ Get(construction).environment = "staging"
    /\ Get(construction).environment \notin DOMAIN config
    /\ IsDefined(Get(construction).error)

\* C7 as stated: the error raised when no entry exists for the name is of
\* kind ConfigurationError and its message is 'unknown environment: <name>'
C7_AsStated ==
    (/\ IsDefined(construction)
     /\ Get(construction).environment \notin DOMAIN config
     /\ IsDefined(Get(construction).error))
        => /\ Get(Get(construction).error).name = "ConfigurationError"
           /\ Get(Get(construction).error).message =
                 <<"unknown environment: ", Get(construction).environment>>

\* C7 amended: the error raised when no entry exists for the name is a plain
\* Error (no ConfigurationError) and its message is
\* 'Invalid environment: <name>'; it is raised only for names that are no
\* keys of the map
C7_ErrorKind ==
    (IsDefined(construction) /\ IsDefined(Get(construction).error)) =>
        /\ Get(construction).environment \notin DOMAIN config
        /\ ~IsDefined(validator)
        /\ Get(Get(construction).error).name = "Error"
        /\ Get(Get(construction).error).name # "ConfigurationError"
        /\ Get(Get(construction).error).message[1] = "Invalid environment: "
        /\ Get(Get(construction).error).message[2] = Get(construction).environment

\* C7 witness: construction raised for a name that differs from a key of the
\* map only in letter case
C7_Witness ==
    /\ IsDefined(construction)
    /\ Get(construction).environment = "Production"
    /\ "production" \in DOMAIN config
    /\ IsDefined(Get(construction).error)

\* C8 as stated: once the engine is built, a change of any part of the
\* configuration map (its entries, a rules record or its flags, a list, a
\* merge flag) leaves the result of every validateEmail call unchanged
C8_AsStated ==
    [][(IsDefined(validator) /\ (config' # config \/ rulesHeap' # rulesHeap)) =>
          \A email \in Emails :
              validateEmail(Get(validator'), rulesHeap', email)
                  = validateEmail(Get(validator), rulesHeap, email)]_vars

\* C9: a validateEmail call leaves the engine's sets and the rules object it
\* reads (and the configuration map) as they were, and validating the same
\* input again in the state it leaves yields the result it returned
C9_ValidateChangesNothing ==
    [][(IsDefined(validator) /\ ~IsDefined(result) /\ IsDefined(result')) =>
          /\ validator' = validator
          /\ rulesHeap' = rulesHeap
          /\ config' = config
          /\ validateEmail(Get(validator'), rulesHeap', Get(result').email)
                = Get(result').outcome]_vars

\* C9 witness: a call returned a rejection on an engine holding both a
\* non-empty trusted set and a custom disposable domain
C9_Witness ==
    /\ Called
    /\ Outcome = Failure(DISPOSABLE_BLOCKED)
    /\ HasTrustedSet
    /\ Get(This.trustedDomains) # {}
    /\ <<"b">> \in This.disposableDomains

\* C10 as stated: on every constructed engine every string input makes
\* validateEmail return, without raising, one of the four results, success
\* being true exactly when error is null
C10_AsStated ==
    Called =>
        /\ Outcome.kind = "return"
        /\ Outcome \in
              {[kind |-> "return", success |-> TRUE, error |-> <<>>],
               [kind |-> "return", success |-> FALSE,
                error |-> <<"Invalid email format">>],
               [kind |-> "return", success |-> FALSE,
                error |-> <<"Disposable email addresses are not allowed">>],
               [kind |-> "return", success |-> FALSE,
                error |-> <<"Plus addressing is not allowed">>]}

\* String.prototype.toUpperCase, on the letters of the model's alphabet
UpperChar(c) ==
    CASE c = "a" -> "A" [] c = "b" -> "B" [] c = "U+03C3" -> "U+03A3"
      [] c = "U+03C2" -> "U+03A3" [] OTHER -> c

\* the other case of a letter; any other character is left alone
CaseFlip(c) == IF LowerChar(c) # c THEN LowerChar(c) ELSE UpperChar(c)

\* s with the character at i in its other case
FlipAt(s, i) == [s EXCEPT ![i] = CaseFlip(s[i])]

\* the character of s at i is one that lowercasing gives back after a
\* change of its case (every ASCII letter; not every sigma)
CaseRoundTrips(s, i) == LowerAt(FlipAt(s, i), i) = LowerAt(s, i)

\* the strings got from s by changing the case of one character
CaseVariants(s) == {FlipAt(s, i) : i \in 1..Len(s)}

\* the same, for the characters that lowercasing gives back
SafeCaseVariants(s) ==
    {FlipAt(s, i) : i \in {j \in 1..Len(s) : CaseRoundTrips(s, j)}}

\* the strings got from s by writing one of its lower-case letters in upper
\* case, and by adding one whitespace character in front or at the end.
\* Read in both directions these steps are every change of the case of one
\* letter and every addition or removal of one whitespace character at
\* either end: any combination of such changes is a chain of them.
RaisedCase(s) ==
    {[s EXCEPT ![i] = UpperChar(s[i])] :
        i \in {j \in 1..Len(s) : UpperChar(s[j]) # s[j]}}
Padded(s) == {<<" ">> \o s, s \o <<" ">>}

\* the same, for the letters that lowercasing gives back
SafeRaisedCase(s) ==
    {[s EXCEPT ![i] = UpperChar(s[i])] :
        i \in {j \in 1..Len(s) :
                  /\ UpperChar(s[j]) # s[j]
                  /\ LowerAt([s EXCEPT ![j] = UpperChar(s[j])], j) = s[j]}}

\* C11 as stated: the result of validateEmail on an input equals its result
\* on every string got from the input by changing the letter case of any
\* character or by adding or removing leading or trailing whitespace
C11_AsStated ==
    Called =>
        \A t \in RaisedCase(Email) \cup Padded(Email) :
            validateEmail(This, rulesHeap, t) = Outcome

\* C11 amended: every call returns what a call on the same instance returns
\* on every string got from its input by changing the case of characters that
\* lowercasing the changed string gives back (every ASCII letter; a sigma
\* only where its place in the word gives the same small form) or by adding
\* or removing leading or trailing whitespace
C11_NormalizationInvariance ==
    [][(~Called /\ Called') =>
          \A call \in {Get(result')} :
              \A t \in SafeRaisedCase(call.email) \cup Padded(call.email) :
                  validateEmail(This, rulesHeap, t) = call.outcome]_vars

\* C11 witness: an input with an upper-case domain and a leading whitespace
\* character was rejected as disposable
C11_Witness ==
    /\ Called
    /\ Len(Email) = 4
    /\ Email[1] = " "
    /\ Email[4] = "A"
    /\ Outcome = Failure(DISPOSABLE_BLOCKED)

----------------------------------------------------------------------------
(* Vocabulary of the properties about the constructor: the environment    *)
(* name it was given and the entry of the map under that name.            *)

Env == Get(construction).environment
Entry == config[Env]
\* an instance exists and was built from an entry of the map
Built == IsDefined(validator) /\ Env \in DOMAIN config
Entries(list) == {list[i] : i \in 1..Len(list)}
Lowered(S) == {toLowerCase(d) : d \in S}
WellFormed(s) == TextBefore(s) # <<>> /\ TextAfter(s) # <<>>
BlockedAsDisposable ==
    Outcome = [kind |-> "return", success |-> FALSE,
               error |-> <<"Disposable email addresses are not allowed">>]

\* C12: when the entry supplies a custom disposable-domain list and its merge
\* flag is true or not set, the instance's disposable-domain set is the
\* lowercased union of the built-in list and the custom list; with
\* allow_disposable_emails = false and no trusted match, an address is
\* rejected as disposable if and only if its domain is in either list.
C12_MergedLists ==
    (/\ Built
     /\ IsDefined(Entry.disposableDomains)
     /\ Entry.mergeDisposableDomains \in {Undefined, Some(TRUE)}) =>
        LET either == Lowered(Entries(DEFAULT_BLOCKED_DOMAINS)
                              \cup Entries(Get(Entry.disposableDomains)))
            s == normalize(Email)
        IN  /\ This.disposableDomains = either
            /\ (/\ Called
                /\ ~Flags.allow_disposable_emails
                /\ WellFormed(s)
                /\ ~TrustedHit(s)) =>
                   (BlockedAsDisposable <=> TextAfter(s) \in either)

\* C12 witness: the custom list holds one domain, the merge flag is not set,
\* and an address at the built-in domain was rejected as disposable
C12_Witness ==
    /\ Called
    /\ Env = "production"
    /\ Entry.disposableDomains = Some(<< <<"B">> >>)
    /\ Entry.mergeDisposableDomains = Undefined
    /\ TextAfter(normalize(Email)) = <<"a">>
    /\ BlockedAsDisposable

\* C13: when the entry supplies a custom disposable-domain list and its merge
\* flag is false, the instance's disposable-domain set is the lowercased
\* custom list: a domain that is only in the built-in list is not rejected
\* as disposable, and with an empty custom list no input is.
C13_CustomListAlone ==
    (/\ Built
     /\ IsDefined(Entry.disposableDomains)
     /\ Entry.mergeDisposableDomains = Some(FALSE)) =>
        LET custom == Lowered(Entries(Get(Entry.disposableDomains)))
            builtIn == Lowered(Entries(DEFAULT_BLOCKED_DOMAINS))
            s == normalize(Email)
        IN  /\ This.disposableDomains = custom
            /\ Called =>
                  /\ TextAfter(s) \in builtIn \ custom => ~BlockedAsDisposable
                  /\ Get(Entry.disposableDomains) = <<>> => ~BlockedAsDisposable

\* C13 witness: empty custom list, merge flag false, disposable addresses
\* not allowed, and an address at the built-in domain succeeded
C13_Witness ==
    /\ Called
    /\ Env = "production"
    /\ Entry.disposableDomains = Some(<<>>)
    /\ Entry.mergeDisposableDomains = Some(FALSE)
    /\ ~Flags.allow_disposable_emails
    /\ WellFormed(normalize(Email))
    /\ TextAfter(normalize(Email)) = <<"a">>
    /\ Outcome = Success

\* C14: when the entry supplies no custom disposable-domain list, the
\* instance's disposable-domain set is the lowercased built-in list whatever
\* the merge flag is: with allow_disposable_emails = false every untrusted
\* address at a built-in domain is rejected as disposable, and no input at
\* another domain is.
C14_BuiltInListAlone ==
    (Built /\ ~IsDefined(Entry.disposableDomains)) =>
        LET builtIn == Lowered(Entries(DEFAULT_BLOCKED_DOMAINS))
            s == normalize(Email)
        IN  /\ This.disposableDomains = builtIn
            /\ Called =>
                  /\ (/\ ~Flags.allow_disposable_emails
                      /\ WellFormed(s)
                      /\ ~TrustedHit(s)
                      /\ TextAfter(s) \in builtIn) => BlockedAsDisposable
                  /\ TextAfter(s) \notin builtIn => ~BlockedAsDisposable

\* C14 witness: no custom list, merge flag false, and an address at the
\* built-in domain was rejected as disposable
C14_Witness ==
    /\ Called
    /\ Env = "production"
    /\ Entry.disposableDomains = Undefined
    /\ Entry.mergeDisposableDomains = Some(FALSE)
    /\ TextAfter(normalize(Email)) = <<"a">>
    /\ BlockedAsDisposable


AtCount(s) == Cardinality({i \in 1..Len(s) : s[i] = "@"})
PlusIn(s) == \E i \in 1..Len(s) : s[i] = "+"
BlockedForPlus ==
    Outcome = [kind |-> "return", success |-> FALSE,
               error |-> <<"Plus addressing is not allowed">>]
Succeeded == Outcome = [kind |-> "return", success |-> TRUE, error |-> <<>>]

\* C15: an input with several '@' is split at the last '@': the checks use
\* the text after the last '@' as the domain and everything before it as the
\* local part, so that an earlier segment naming a disposable or trusted
\* domain has no effect: such an input is rejected as disposable only for
\* the text after its last '@', is rejected so although an earlier segment is
\* trusted, and succeeds when the text after the last '@' is not blocked.
C15_SplitAtLastAt ==
    (Called /\ Built /\ AtCount(normalize(Email)) >= 2) =>
        LET s == normalize(Email)
            before == TextBefore(s)
            after == TextAfter(s)
        IN  /\ BlockedAsDisposable => after \in This.disposableDomains
            /\ (/\ before # <<>>
                /\ after # <<>>
                /\ ~TrustedHit(s)
                /\ ~Flags.allow_disposable_emails
                /\ after \in This.disposableDomains) => BlockedAsDisposable
            /\ (/\ before # <<>>
                /\ after # <<>>
                /\ after \notin This.disposableDomains
                /\ ~PlusIn(before)) => Succeeded
            /\ BlockedForPlus => PlusIn(before)

\* C15 witness: the middle segment of 'a@a@b' is a disposable domain, the
\* text after the last '@' is not, disposable addresses are not allowed, and
\* the call succeeded
C15_Witness ==
    /\ Called
    /\ Built
    /\ Email = <<"a", "@", "a", "@", "b">>
    /\ <<"a">> \in This.disposableDomains
    /\ ~Flags.allow_disposable_emails
    /\ ~HasTrustedSet
    /\ Succeeded

\* C16: with allow_plus_addressing = false, every well-formed, untrusted
\* input at a domain outside the disposable set whose local part holds a '+'
\* at any position is rejected with 'Plus addressing is not allowed', and an
\* input without a '+' in its local part never is.
C16_PlusInLocalPart ==
    (Called /\ Built /\ ~Flags.allow_plus_addressing) =>
        LET s == normalize(Email)
        IN  /\ (/\ WellFormed(s)
                /\ ~TrustedHit(s)
                /\ TextAfter(s) \notin This.disposableDomains
                /\ PlusIn(TextBefore(s))) => BlockedForPlus
            /\ ~PlusIn(TextBefore(s)) => ~BlockedForPlus

\* C16 witness: plus addressing is not allowed, the '+' is the first
\* character of a two-character local part, and the call was rejected for it
C16_Witness ==
    /\ Called
    /\ Built
    /\ ~Flags.allow_plus_addressing
    /\ Len(TextBefore(normalize(Email))) = 2
    /\ TextBefore(normalize(Email))[1] = "+"
    /\ BlockedForPlus

\* C17: on an instance with allow_disposable_emails = true no call is rejected
\* as disposable, and on an instance with allow_plus_addressing = true no
\* call is rejected for plus addressing.
C17_FlagSwitchesOffItsRule ==
    (Called /\ IsDefined(This.rules)) =>
        /\ Flags.allow_disposable_emails => ~BlockedAsDisposable
        /\ Flags.allow_plus_addressing => ~BlockedForPlus

\* C17 witness: disposable addresses are allowed, plus addressing is not, and
\* an untrusted address at a domain of the disposable set succeeded
C17_Witness ==
    /\ Called
    /\ IsDefined(This.rules)
    /\ Flags.allow_disposable_emails
    /\ ~Flags.allow_plus_addressing
    /\ WellFormed(normalize(Email))
    /\ TextAfter(normalize(Email)) \in This.disposableDomains
    /\ ~TrustedHit(normalize(Email))
    /\ Succeeded


\* the instance the constructor builds for the same name when the entry's
\* two lists are written as d and t
Rebuilt(d, t) ==
    constructor(Env, [config EXCEPT ![Env].disposableDomains = d,
                                    ![Env].trustedDomains = t]).this

\* C18: an instance built from an entry without a trusted list holds the
\* 'absent' marker and not an empty set, an instance built from an entry with
\* an empty trusted list holds an empty set, and the two instances (same
\* flags, same disposable list) return the same result for every input:
\* neither lets an input pass as trusted.
C18_AbsentAndEmptyTrusted ==
    (Built /\ Entry.trustedDomains \in {Undefined, Some(<<>>)}) =>
        LET \* the instance of the other of the two entries
            other == [This EXCEPT !.trustedDomains =
                         IF @ = Undefined THEN Some({}) ELSE Undefined]
        IN  /\ Entry.trustedDomains = Undefined => This.trustedDomains = Undefined
            /\ Entry.trustedDomains = Some(<<>>) => This.trustedDomains = Some({})
            /\ ~Called =>
                  Rebuilt(Entry.disposableDomains,
                          IF Entry.trustedDomains = Undefined THEN Some(<<>>)
                          ELSE Undefined) = other
            /\ Called =>
                  /\ validateEmail(other, rulesHeap, Email) = Outcome
                  /\ ~TrustedHit(normalize(Email))

\* C18 witness: the entry has an empty trusted list, the instance holds an
\* empty set, and an address was rejected as disposable
C18_Witness ==
    /\ Called
    /\ Built
    /\ Entry.trustedDomains = Some(<<>>)
    /\ This.trustedDomains = Some({})
    /\ BlockedAsDisposable

Reverse(list) == [i \in 1..Len(list) |-> list[Len(list) + 1 - i]]

\* the lists got from a list by repeating one entry or by reversing the order
Reorderings(list) == {Append(list, list[i]) : i \in 1..Len(list)} \cup {Reverse(list)}

\* the lists got from a list by changing the case of one character of one entry
Recasings(list) ==
    UNION {{[list EXCEPT ![i] = v] : v \in CaseVariants(list[i])} : i \in 1..Len(list)}

\* the same, for the characters that lowercasing gives back
SafeRecasings(list) ==
    UNION {{[list EXCEPT ![i] = v] : v \in SafeCaseVariants(list[i])} :
              i \in 1..Len(list)}

\* every entry in the other case where lowercasing gives it back, every
\* entry twice, in reverse order
Rewritten(list) ==
    LET swapped == [i \in 1..Len(list) |->
                      [j \in 1..Len(list[i]) |->
                          IF CaseRoundTrips(list[i], j) THEN CaseFlip(list[i][j])
                          ELSE list[i][j]]]
    IN  Reverse(swapped \o swapped)

OfList(o, V(_)) == IF IsDefined(o) THEN {Some(v) : v \in V(Get(o))} ELSE {}

\* C19 as stated: writing an entry of the disposable-domain list or of the
\* trusted list in a different letter case, repeating an entry or reordering
\* the entries yields an instance that returns the same result
C19_AsStated ==
    (Called /\ Built) =>
        /\ \A d \in OfList(Entry.disposableDomains, Recasings)
                     \cup OfList(Entry.disposableDomains, Reorderings) :
               validateEmail(Rebuilt(d, Entry.trustedDomains), rulesHeap, Email)
                  = Outcome
        /\ \A t \in OfList(Entry.trustedDomains, Recasings)
                     \cup OfList(Entry.trustedDomains, Reorderings) :
               validateEmail(Rebuilt(Entry.disposableDomains, t), rulesHeap, Email)
                  = Outcome

\* C19 amended: the same for changes of case of the characters that
\* lowercasing the changed entry gives back (every ASCII letter; a sigma only
\* where its place in the word gives the same small form): when the constructor has
\* returned, one such rewriting of either list, and both lists rewritten
\* throughout, yield an instance with the same flags, the same disposable
\* set and the same trusted set, which returns the same result for every
\* input.
C19_SetOfLoweredEntries ==
    (Built /\ ~Called) =>
        /\ \A d \in OfList(Entry.disposableDomains, SafeRecasings)
                     \cup OfList(Entry.disposableDomains, Reorderings) :
               Rebuilt(d, Entry.trustedDomains) = This
        /\ \A t \in OfList(Entry.trustedDomains, SafeRecasings)
                     \cup OfList(Entry.trustedDomains, Reorderings) :
               Rebuilt(Entry.disposableDomains, t) = This
        /\ \A d \in OfList(Entry.disposableDomains, LAMBDA l : {Rewritten(l)})
                     \cup {o \in {Undefined} : o = Entry.disposableDomains} :
           \A t \in OfList(Entry.trustedDomains, LAMBDA l : {Rewritten(l)})
                     \cup {o \in {Undefined} : o = Entry.trustedDomains} :
               Rebuilt(d, t) = This

\* C19 witness: the constructor has returned for an entry that writes one
\* domain in upper case in both lists and has two trusted entries; the
\* instance holds the domain in lower case in both sets
C19_Witness ==
    /\ Built
    /\ ~Called
    /\ Entry.disposableDomains = Some(<< <<"B">> >>)
    /\ IsDefined(Entry.trustedDomains)
    /\ Len(Get(Entry.trustedDomains)) = 2
    /\ Get(Entry.trustedDomains)[1] = <<"B">>
    /\ <<"b">> \in This.disposableDomains
    /\ <<"b">> \in Get(This.trustedDomains)

\* the instance an entry describes, from that entry alone
InstanceOf(e) ==
    [rules |-> e.rules,
     disposableDomains |->
        IF ~IsDefined(e.disposableDomains)
        THEN Lowered(Entries(DEFAULT_BLOCKED_DOMAINS))
        ELSE IF e.mergeDisposableDomains = Some(FALSE)
        THEN Lowered(Entries(Get(e.disposableDomains)))
        ELSE Lowered(Entries(DEFAULT_BLOCKED_DOMAINS)
                     \cup Entries(Get(e.disposableDomains))),
     trustedDomains |->
        IF IsDefined(e.trustedDomains)
        THEN Some(Lowered(Entries(Get(e.trustedDomains))))
        ELSE Undefined]

\* C20: the constructor selects the entry keyed by exactly the given name,
\* without normalization, fallback or partial match: for a key of the map it
\* returns, and the instance's flags, disposable set and trusted set are
\* those the entry under that key alone describes, whichever other entries
\* the map has; no instance carries the flags of an entry under another name.
C20_ExactKeyLookup ==
    IsDefined(construction) =>
        /\ Env \in DOMAIN config => IsDefined(validator) /\ This = InstanceOf(Entry)
        /\ (IsDefined(validator) /\ Env \notin DOMAIN config) => ~IsDefined(This.rules)

\* C20 witness: the map has the entries "production" and "test", and the
\* instance built for "test" has the flags and the lists of "test": the
\* built-in domain and the three custom domains in lower case, the one
\* written with a capital sigma at its end with a final sigma
C20_Witness ==
    /\ IsDefined(validator)
    /\ DOMAIN config = {"production", "test"}
    /\ Env = "test"
    /\ This.rules = config["test"].rules
    /\ This.rules # config["production"].rules
    /\ This.disposableDomains
          = {<<"a">>, <<"b">>, <<"U+03C2">>, <<"a", "U+03C2">>}
    /\ This.trustedDomains = Some({<<"a", "b">>, <<"b", "a">>})


\* C21: construction, whether it returns or throws, leaves the configuration
\* map (its entries, the rules records, the lists) and the built-in list as
\* they were, and the instance's sets are copies: neither field of the
\* instance holds one of the caller's arrays or the built-in array, and what
\* the caller writes to the map and its lists afterwards does not reach them.
C21_ConstructionChangesNothing ==
    [][/\ (construction = Undefined /\ construction' # Undefined) =>
             /\ config' = config
             /\ rulesHeap' = rulesHeap
             /\ DEFAULT_BLOCKED_DOMAINS' = DEFAULT_BLOCKED_DOMAINS
             /\ IsDefined(validator') =>
                   \A f \in {"disposableDomains", "trustedDomains"} :
                       Get(identity')[f] \notin CallerArrays(config) \cup {BuiltInArray}
       /\ (IsDefined(validator) /\ config' # config) =>
             /\ IsDefined(validator')
             /\ Get(validator').disposableDomains = This.disposableDomains
             /\ Get(validator').trustedDomains = This.trustedDomains]_vars

\* C21 witness: the instance was built from an entry with two trusted
\* entries and holds two sets of its own; the caller has then pushed a third
\* domain onto the entry's trusted array, and the instance's trusted set
\* does not hold it; the built-in list is as it was
C21_Witness ==
    /\ Built
    /\ writes = 1
    /\ Env = "production"
    /\ IsDefined(Entry.trustedDomains)
    /\ Len(Get(Entry.trustedDomains)) = 3
    /\ Get(Entry.trustedDomains)[3] = <<"a">>
    /\ Cardinality(Get(This.trustedDomains)) = 2
    /\ <<"a">> \notin Get(This.trustedDomains)
    /\ Get(identity).disposableDomains = NewSet("disposableDomains")
    /\ Get(identity).trustedDomains = NewSet("trustedDomains")
    /\ DEFAULT_BLOCKED_DOMAINS = BuiltInDomains


\* C22: in every interleaving of the statements of validateEmail calls that
\* several callers run on one instance, no statement of a call changes the
\* instance's flags or sets, and each call ends with the result the call
\* returns when run alone on that instance.
C22_InterleavedCalls ==
    [][calls' # calls =>
          /\ validator' = validator
          /\ rulesHeap' = rulesHeap
          /\ \A c \in Callers :
                calls'[c].pc = "done" =>
                   calls'[c].outcome =
                      validateEmail(This, rulesHeap, calls'[c].email)]_vars

\* C22 witness: one caller's call has ended with a rejection for plus
\* addressing while the other caller's call on the same domain is between
\* its trusted check and its disposable check
C22_Witness ==
    /\ calls["c1"].pc = "done"
    /\ calls["c1"].outcome = Failure(PLUS_BLOCKED)
    /\ calls["c2"].pc = "disposable"
    /\ calls["c2"].domain = <<"b">>


Malformed ==
    [kind |-> "return", success |-> FALSE, error |-> <<"Invalid email format">>]
InvalidFormat == Outcome = Malformed

\* C23: in every call the format check runs before the trusted override: an
\* input whose local part or domain part is empty returns 'Invalid email
\* format' even
\* when the trusted set holds the whole normalized input or the text after
\* its last '@'.
C23_FormatBeforeTrusted ==
    [][(~Called /\ Called' /\ HasTrustedSet) =>
          \A call \in {Get(result')} :
              LET s == normalize(call.email)
              IN  (/\ TextBefore(s) = <<>> \/ TextAfter(s) = <<>>
                   /\ s \in Get(This.trustedDomains)
                         \/ TextAfter(s) \in Get(This.trustedDomains))
                      => call.outcome = Malformed]_vars

\* C23 witness: the bare string of a trusted domain, without any '@', was
\* rejected as malformed
C23_Witness ==
    /\ Called
    /\ HasTrustedSet
    /\ Email = <<"a", "b">>
    /\ Email \in Get(This.trustedDomains)
    /\ InvalidFormat

\* C24: a call returns 'Invalid email format' if and only if, in the trimmed
\* lowercased input, the text before the last '@' is empty or the text after
\* it is empty: nothing else about the input is looked at.
C24_FormatCheckExactly ==
    [][(~Called /\ Called') =>
          \A call \in {Get(result')} :
              LET s == normalize(call.email)
              IN  call.outcome = Malformed
                     <=> (TextBefore(s) = <<>> \/ TextAfter(s) = <<>>)]_vars

\* C24 witness: an input with whitespace inside its local part, or with a
\* Greek letter for a domain, passed the format check
C24_Witness ==
    /\ Called
    /\ Email \in {<<"a", " ", "@", "a">>} \cup SigmaEmails
    /\ Outcome.kind = "return"
    /\ ~InvalidFormat

\* C25 as stated: every instance the constructor returns holds a rules
\* record with two boolean flags, a disposable-domain set and a trusted set
\* or the null marker, and no validateEmail call on it fails reading them
C25_AsStated ==
    IsDefined(validator) =>
        /\ IsDefined(This.rules)
        /\ Flags \in [allow_plus_addressing : BOOLEAN,
                       allow_disposable_emails : BOOLEAN]
        /\ Called => Outcome # [kind |-> "throw", name |-> "TypeError"]


\* d is a subdomain of e: d ends with a dot followed by e
IsSubdomainOf(d, e) ==
    /\ Len(e) > 0
    /\ Len(d) > Len(e) + 1
    /\ d[Len(d) - Len(e)] = "."
    /\ SubSeq(d, Len(d) - Len(e) + 1, Len(d)) = e

\* the call was judged by the two blocking rules, without an override
JudgedByRules(before, after, outcome) ==
    LET disposable == ~Flags.allow_disposable_emails
                      /\ after \in This.disposableDomains
    IN  /\ disposable =>
              outcome = [kind |-> "return", success |-> FALSE,
                         error |-> <<"Disposable email addresses are not allowed">>]
        /\ (~disposable /\ ~Flags.allow_plus_addressing /\ PlusIn(before)) =>
              outcome = [kind |-> "return", success |-> FALSE,
                         error |-> <<"Plus addressing is not allowed">>]

\* C26: membership in the sets is equality of the whole domain: an input at
\* a subdomain of a disposable domain, the subdomain itself not being in the
\* set, is not rejected as disposable, and an address at a subdomain of a
\* trusted domain, neither the address nor the subdomain being in the
\* trusted set, gets no trusted override.
C26_WholeDomainEquality ==
    [][(~Called /\ Called' /\ Built) =>
          \A call \in {Get(result')} :
              LET s == normalize(call.email)
                  before == TextBefore(s)
                  after == TextAfter(s)
              IN  /\ (/\ after \notin This.disposableDomains
                      /\ \E e \in This.disposableDomains : IsSubdomainOf(after, e))
                        => call.outcome #
                              [kind |-> "return", success |-> FALSE,
                               error |-> <<"Disposable email addresses are not allowed">>]
                  /\ (/\ HasTrustedSet
                      /\ before # <<>>
                      /\ s \notin Get(This.trustedDomains)
                      /\ after \notin Get(This.trustedDomains)
                      /\ \E e \in Get(This.trustedDomains) : IsSubdomainOf(after, e))
                        => JudgedByRules(before, after, call.outcome)]_vars

\* C26 witness: the built-in domain 'a' is in the disposable set, disposable
\* addresses are not allowed, and the address 'a@b.a' succeeded without a
\* trusted set
C26_Witness ==
    /\ Called
    /\ Built
    /\ Email = <<"a", "@", "b", ".", "a">>
    /\ <<"a">> \in This.disposableDomains
    /\ ~Flags.allow_disposable_emails
    /\ ~HasTrustedSet
    /\ Succeeded

\* C27: a trusted entry that is a full address exempts that address alone:
\* another address at the same domain, the domain not being a trusted entry
\* itself, gets no override and is judged by the disposable-domain and
\* plus-addressing rules.
C27_TrustedAddressAlone ==
    [][(~Called /\ Called' /\ Built /\ HasTrustedSet) =>
          \A call \in {Get(result')} :
              LET s == normalize(call.email)
                  before == TextBefore(s)
                  after == TextAfter(s)
              IN  (/\ before # <<>>
                   /\ after # <<>>
                   /\ s \notin Get(This.trustedDomains)
                   /\ after \notin Get(This.trustedDomains)
                   /\ \E e \in Get(This.trustedDomains) :
                         LastAt(e) > 0 /\ TextAfter(e) = after)
                      => JudgedByRules(before, after, call.outcome)]_vars

\* C27 witness: the address 'a+@a' is trusted, the domain 'a' is not, and
\* the address '+@a' was rejected as disposable
C27_Witness ==
    /\ Called
    /\ Built
    /\ HasTrustedSet
    /\ <<"a", "+", "@", "a">> \in Get(This.trustedDomains)
    /\ <<"a">> \notin Get(This.trustedDomains)
    /\ Email = <<"+", "@", "a">>
    /\ BlockedAsDisposable


\* C28: permissiveness is monotone in the flags: for the instance of a call
\* and every instance that differs from it only in its flags and allows all
\* the first allows, an input the first accepts the second accepts, and an
\* input is malformed for both or for neither.
C28_MonotoneInFlags ==
    [][(~Called /\ Called' /\ IsDefined(This.rules)) =>
          \A call \in {Get(result')}, more \in RulesObjects :
              (/\ Flags.allow_plus_addressing => more.allow_plus_addressing
               /\ Flags.allow_disposable_emails => more.allow_disposable_emails)
              => LET first == call.outcome
                     second == validateEmail(
                                  This,
                                  [rulesHeap EXCEPT ![Get(This.rules)] = more],
                                  call.email)
                 IN  /\ first.kind = "return" /\ second.kind = "return"
                     /\ first.success => second.success
                     /\ first = Malformed <=> second = Malformed]_vars

\* C28 witness: an untrusted address was accepted by an instance that allows
\* neither disposable addresses nor plus addressing
C28_Witness ==
    /\ Called
    /\ IsDefined(This.rules)
    /\ ~Flags.allow_disposable_emails
    /\ ~Flags.allow_plus_addressing
    /\ ~TrustedHit(normalize(Email))
    /\ Succeeded

\* C29: in every call on an instance with allow_disposable_emails = true and
\* allow_plus_addressing = true every input with a non-empty local part and
\* a non-empty domain succeeds, whatever the two sets hold: the only failure
\* is 'Invalid email format'.
C29_BothFlagsTrue ==
    [][(/\ ~Called /\ Called'
        /\ IsDefined(This.rules)
        /\ Flags.allow_disposable_emails
        /\ Flags.allow_plus_addressing) =>
          \A call \in {Get(result')} :
              LET s == normalize(call.email)
                  succeeded == call.outcome = [kind |-> "return", success |-> TRUE,
                                               error |-> <<>>]
              IN  /\ (TextBefore(s) # <<>> /\ TextAfter(s) # <<>>) => succeeded
                  /\ ~succeeded => call.outcome = Malformed]_vars

\* C29 witness: both flags are true and an untrusted address with a '+' in
\* its local part and a domain of the disposable set succeeded
C29_Witness ==
    /\ Called
    /\ IsDefined(This.rules)
    /\ Flags.allow_disposable_emails
    /\ Flags.allow_plus_addressing
    /\ PlusIn(TextBefore(normalize(Email)))
    /\ TextAfter(normalize(Email)) \in This.disposableDomains
    /\ ~TrustedHit(normalize(Email))
    /\ Succeeded

\* the normalization in the specified order: trim, then lowercase
TrimThenLowerCase(email) == toLowerCase(trim(email))

\* C30: lowercasing first and trimming second, as the code does, yields for
\* every input the string that trimming first and lowercasing second yields,
\* and so the same local part, the same domain and the same result.
C30_NormalizationOrder ==
    [][(~Called /\ Called') =>
          \A call \in {Get(result')} :
              LET s == TrimThenLowerCase(call.email)
                  emailLower == normalize(call.email)
              IN  /\ s = emailLower
                  /\ localPartOf(s) = localPartOf(emailLower)
                  /\ domainOf(s) = domainOf(emailLower)
                  /\ validateEmail(This, rulesHeap, s) = call.outcome]_vars

\* C30 witness: an input in upper case that ends in a capital sigma and a
\* whitespace character was rejected as disposable: in either order the
\* sigma is the last letter of its word and becomes the final sigma
C30_Witness ==
    /\ Called
    /\ Email = <<"A", "@", "A", "U+03A3", " ">>
    /\ normalize(Email) = <<"a", "@", "a", "U+03C2">>
    /\ TrimThenLowerCase(Email) = <<"a", "@", "a", "U+03C2">>
    /\ Outcome = Failure(DISPOSABLE_BLOCKED)

====
